---- MODULE Spec2Model ----
(***************************************************************************)
(* Model of backend/pkg/owl/consumer_group_lag.go: the consumer group lag  *)
(* report of Service.getConsumerGroupLags, with its three collaborators    *)
(* (ListConsumerGroupOffsetsBulk, Client.Partitions, HighWaterMarks)       *)
(* modelled as nondeterministic calls that either fail or return a value.  *)
(*                                                                         *)
(* Go maps are functions whose DOMAIN is the key set; <<>> is the empty    *)
(* map.  Ranging over a Go map visits the keys in an arbitrary order, so   *)
(* every such loop takes its order from the set of permutations of the     *)
(* key set.  int64 values are modelled by unbounded integers inside small  *)
(* ranges: offsets are >= -1 and watermarks >= 0, as Kafka produces them.  *)
(***************************************************************************)
EXTENDS Integers, Sequences, FiniteSets, TLC

VARIABLES groups,           \* the argument: requested group ids
          pc,               \* position in getConsumerGroupLags
          calls,            \* the collaborator calls issued so far, in order
          offsets,          \* raw result of ListConsumerGroupOffsetsBulk
          offsetsByGroup,   \* GroupID -> TopicName -> partitionOffsets
          topics,           \* the slice of consumed topics
          ti,               \* index of the next element of topics to list
          topicPartitions,  \* topic -> partition ids
          waterMarks,       \* topic -> partition -> high water mark
          gi,               \* index of the next element of groups to compute
          res,              \* the report under construction
          ret               \* what the function returned

vars == <<groups, pc, calls, offsets, offsetsByGroup, topics, ti,
          topicPartitions, waterMarks, gi, res, ret>>

(* ------------------------------ bounds -------------------------------- *)
GroupIDs == {"g1", "g2"}
TopicNames == {"tA", "tB"}
MaxGroups == 2
MaxPartition == 1
MaxOffset == 1
MaxWatermark == 1
MaxBlocks == 2

PartitionIDs == 0..MaxPartition
OffsetValues == -1..MaxOffset
WatermarkValues == 0..MaxWatermark

(* ------------------------------ helpers ------------------------------- *)
\* All maps from a subset of S to V.
PartialFns(S, V) == UNION {[D -> V] : D \in SUBSET S}

\* m[k] = v, as a Go map assignment.
Put(m, k, v) == [x \in (DOMAIN m) \cup {k} |-> IF x = k THEN v ELSE m[x]]

\* The orders in which a range loop may visit the key set S.
Perms(S) ==
    {s \in [1..Cardinality(S) -> S] : \A x \in S : \E i \in DOMAIN s : s[i] = x}

Range(s) == {s[i] : i \in DOMAIN s}

RECURSIVE SumSeq(_)
SumSeq(s) == IF s = <<>> THEN 0 ELSE Head(s) + SumSeq(Tail(s))

\* Sequences over S of length 1..n.
SeqsUpTo(S, n) == UNION {[1..k -> S] : k \in 1..n}

(* --------------------------- error values ----------------------------- *)
NoError == "nil"
ErrListOffsets == "failed to list consumer group offsets in bulk"
ErrPartitions == "failed to fetch partition list for calculating the group lags"
ErrHighWaterMarks == "high water marks error"
ErrNoWatermark == "no partition watermark for the group's topic available"

NotReturned == [map |-> "none", err |-> "none"]
ReturnNil(e) == [map |-> "nil", err |-> e]
ReturnRes == [map |-> "res", err |-> NoError]

(* -------------------------- convertOffsets ---------------------------- *)
convertOffsets(resp) ==
    [topic \in DOMAIN resp.Blocks |->
        [pID \in DOMAIN resp.Blocks[topic] |-> resp.Blocks[topic][pID].Offset]]

(* ------------------------- collaborator results ----------------------- *)
\* The size of one group's response: its blocks, a topic without blocks
\* counting as one.
NumBlocks(blocks) ==
    LET size(t) == IF DOMAIN blocks[t] = {} THEN 1 ELSE Cardinality(DOMAIN blocks[t])
        RECURSIVE sum(_)
        sum(T) == IF T = {} THEN 0
                  ELSE LET t == CHOOSE x \in T : TRUE IN size(t) + sum(T \ {t})
    IN  sum(DOMAIN blocks)

\* The size of a bulk result.
TotalBlocks(bulk) ==
    LET RECURSIVE sum(_)
        sum(G) == IF G = {} THEN 0
                  ELSE LET g == CHOOSE x \in G : TRUE
                       IN  NumBlocks(bulk[g].Blocks) + sum(G \ {g})
    IN  sum(DOMAIN bulk)

OffsetFetchResponseBlocks == {[Offset |-> o] : o \in OffsetValues}

TopicBlocks ==
    {b \in PartialFns(PartitionIDs, OffsetFetchResponseBlocks) :
        Cardinality(DOMAIN b) <= MaxBlocks}

OffsetFetchResponses ==
    {[Blocks |-> b] : b \in {x \in PartialFns(TopicNames, TopicBlocks) :
                                NumBlocks(x) <= MaxBlocks}}

\* The results for the groups G of size at most MaxBlocks: any group may be
\* missing from a result.
RECURSIVE BulkOffsetsOf(_)
BulkOffsetsOf(G) ==
    IF G = {} THEN {<<>>}
    ELSE LET g == CHOOSE x \in G : TRUE
         IN  UNION {{r} \cup {Put(r, g, resp) :
                                resp \in {x \in OffsetFetchResponses :
                                    NumBlocks(x.Blocks) + TotalBlocks(r) <= MaxBlocks}} :
                    r \in BulkOffsetsOf(G \ {g})}

\* What ListConsumerGroupOffsetsBulk(groups) may return on success: the
\* result may lack a requested group and may hold a group not asked for.
BulkOffsets(gs) == BulkOffsetsOf(GroupIDs)

\* What Client.Partitions(topic) may return on success: the ids 0..n-1 of a
\* topic of n >= 1 partitions.
PartitionLists == {[i \in 1..n |-> i - 1] : n \in 1..(MaxPartition + 1)}

\* What HighWaterMarks(topicPartitions) may return on success: a mark for
\* every requested partition of each topic it answers for; any requested
\* topic may be missing from the answer.
HighWaterMarkResults(req) ==
    {w \in PartialFns(DOMAIN req, PartialFns(PartitionIDs, WatermarkValues)) :
        \A t \in DOMAIN w : DOMAIN w[t] = Range(req[t])}

(* ----------------------- the consumed topics slice -------------------- *)
\* Lines 76-81: one element per (group, topic) of offsetsByGroup, the groups
\* in groupOrder and each group's topics in topicOrder[group].
RECURSIVE CollectTopics(_, _)
CollectTopics(groupOrder, topicOrder) ==
    IF groupOrder = <<>> THEN <<>>
    ELSE topicOrder[Head(groupOrder)] \o CollectTopics(Tail(groupOrder), topicOrder)

\* The iteration orders of every inner map of m.
InnerOrders(m, Keys) ==
    {f \in [DOMAIN m -> UNION {Perms(K) : K \in SUBSET Keys}] :
        \A k \in DOMAIN m : f[k] \in Perms(DOMAIN m[k])}

(* ------------------------------ the join ------------------------------ *)
\* Lines 128-132 without the clamp of lines 129-132.
LagUnclamped(watermark, groupOffset) == watermark - groupOffset

\* Lines 128-132.
Lag(watermark, groupOffset) ==
    LET lag == watermark - groupOffset
    IN  IF lag < 0 THEN 0 ELSE lag

\* Line 123 without the check: every partition with a water mark is taken.
HasGroupOffsetAlways(partitionOffsets, pID) == TRUE

\* Line 122: the two results of a map lookup.
HasGroupOffset(partitionOffsets, pID) == pID \in DOMAIN partitionOffsets

GroupOffset(partitionOffsets, pID) ==
    IF pID \in DOMAIN partitionOffsets THEN partitionOffsets[pID] ELSE 0

\* Lines 114-120.
NewTopicLag(topic, partitionWaterMarks) ==
    [Topic |-> topic,
     SummedLag |-> 0,
     PartitionCount |-> Cardinality(DOMAIN partitionWaterMarks),
     PartitionsWithOffset |-> 0,
     PartitionLags |-> <<>>]

\* Lines 126-134 with line 133 assigning instead of accumulating.
AddPartitionLagAssign(t, pID, lag) ==
    [t EXCEPT !.PartitionsWithOffset = @ + 1,
              !.SummedLag = lag,
              !.PartitionLags = Append(@, [PartitionID |-> pID, Lag |-> lag])]

\* Lines 126-134: one partition with a group offset is added to t.
AddPartitionLag(t, pID, lag) ==
    [t EXCEPT !.PartitionsWithOffset = @ + 1,
              !.SummedLag = @ + lag,
              !.PartitionLags = Append(@, [PartitionID |-> pID, Lag |-> lag])]

\* Lines 121-135 with the join reversed: the loop ranges over the group's
\* offsets and looks the water mark up.
RECURSIVE JoinOffsets(_, _, _, _)
JoinOffsets(t, pIDs, partitionWaterMarks, partitionOffsets) ==
    IF pIDs = {} THEN t
    ELSE LET pID == CHOOSE p \in pIDs : TRUE
             watermark == IF pID \in DOMAIN partitionWaterMarks
                          THEN partitionWaterMarks[pID] ELSE 0
         IN  JoinOffsets(AddPartitionLag(t, pID, Lag(watermark, partitionOffsets[pID])),
                         pIDs \ {pID}, partitionWaterMarks, partitionOffsets)

JoinPartitionsByOffsets(t, order, partitionWaterMarks, partitionOffsets) ==
    JoinOffsets(t, DOMAIN partitionOffsets, partitionWaterMarks, partitionOffsets)

\* Lines 121-135: the loop over the water marks, visited in order.
RECURSIVE JoinPartitions(_, _, _, _)
JoinPartitions(t, order, partitionWaterMarks, partitionOffsets) ==
    IF order = <<>> THEN t
    ELSE LET pID == Head(order)
             watermark == partitionWaterMarks[pID]
         IN  IF ~HasGroupOffset(partitionOffsets, pID)
             THEN JoinPartitions(t, Tail(order), partitionWaterMarks, partitionOffsets)
             ELSE JoinPartitions(
                      AddPartitionLag(t, pID,
                          Lag(watermark, GroupOffset(partitionOffsets, pID))),
                      Tail(order), partitionWaterMarks, partitionOffsets)

\* Line 102: offsetsByGroup[group]; a missing key yields the nil map.
GroupTopicOffsets(obg, group) == IF group \in DOMAIN obg THEN obg[group] ELSE <<>>

\* Line 101: make([]*TopicLag, 0), a slice that is empty and not nil.
MakeTopicLags == [isNil |-> FALSE, elems |-> <<>>]

AppendTopicLag(topicLags, t) == [isNil |-> FALSE, elems |-> Append(topicLags.elems, t)]

\* Lines 102-137 with lines 107-110 skipping the topic instead of returning.
RECURSIVE JoinTopicsSkipMissing(_, _, _, _, _)
JoinTopicsSkipMissing(topicLags, topicOrder, pOrder, topicOffsets, marks) ==
    IF topicOrder = <<>> THEN [ok |-> TRUE, topicLags |-> topicLags]
    ELSE LET topic == Head(topicOrder)
         IN  IF topic \notin DOMAIN marks
             THEN JoinTopicsSkipMissing(topicLags, Tail(topicOrder), pOrder,
                                        topicOffsets, marks)
             ELSE JoinTopicsSkipMissing(
                      AppendTopicLag(topicLags,
                          JoinPartitions(NewTopicLag(topic, marks[topic]),
                                         pOrder[topic], marks[topic],
                                         topicOffsets[topic])),
                      Tail(topicOrder), pOrder, topicOffsets, marks)

\* Lines 102-137: the loop over one group's topics, visited in topicOrder;
\* pOrder[topic] is the order in which the topic's water marks are visited.
\* ok is FALSE when the loop returned the error of line 109.
RECURSIVE JoinTopics(_, _, _, _, _)
JoinTopics(topicLags, topicOrder, pOrder, topicOffsets, marks) ==
    IF topicOrder = <<>> THEN [ok |-> TRUE, topicLags |-> topicLags]
    ELSE LET topic == Head(topicOrder)
         IN  IF topic \notin DOMAIN marks
             THEN [ok |-> FALSE, topicLags |-> topicLags]
             ELSE JoinTopics(
                      AppendTopicLag(topicLags,
                          JoinPartitions(NewTopicLag(topic, marks[topic]),
                                         pOrder[topic], marks[topic],
                                         topicOffsets[topic])),
                      Tail(topicOrder), pOrder, topicOffsets, marks)

\* Lines 139-142 entered only for a group that has topic lags.
PutGroupLagIfAny(r, group, topicLags) ==
    IF topicLags.elems = <<>> THEN r
    ELSE Put(r, group, [GroupID |-> group, TopicLags |-> topicLags])

\* Lines 139-142.
PutGroupLag(r, group, topicLags) ==
    Put(r, group, [GroupID |-> group, TopicLags |-> topicLags])

(* ----------------------------- GetTopicLag ---------------------------- *)
\* Lines 20-28: the first TopicLag of the topic as a one-element sequence,
\* or <<>> for nil.
GetTopicLag(c, topicName) ==
    LET found == SelectSeq(c.TopicLags.elems, LAMBDA lag : lag.Topic = topicName)
    IN  IF found = <<>> THEN <<>> ELSE <<Head(found)>>

(* ------------------------------ actions ------------------------------- *)
Call(op, arg, ok, result) == [op |-> op, arg |-> arg, ok |-> ok, result |-> result]

Init ==
    /\ groups \in SeqsUpTo(GroupIDs, MaxGroups)
    /\ pc = "offsets"
    /\ calls = <<>>
    /\ offsets = <<>>
    /\ offsetsByGroup = <<>>
    /\ topics = <<>>
    /\ ti = 1
    /\ topicPartitions = <<>>
    /\ waterMarks = <<>>
    /\ gi = 1
    /\ res = <<>>
    /\ ret = NotReturned

\* Lines 63-81, the call succeeding.
ListOffsetsOk ==
    /\ pc = "offsets"
    /\ \E bulk \in BulkOffsets(groups) :
         LET obg == [group \in DOMAIN bulk |-> convertOffsets(bulk[group])]
         IN  /\ offsets' = bulk
             /\ offsetsByGroup' = obg
             /\ \E groupOrder \in Perms(DOMAIN obg) :
                  \E topicOrder \in InnerOrders(obg, TopicNames) :
                     topics' = CollectTopics(groupOrder, topicOrder)
             /\ calls' = Append(calls,
                    Call("ListConsumerGroupOffsetsBulk", groups, TRUE, bulk))
    /\ pc' = "partitions"
    /\ UNCHANGED <<groups, ti, topicPartitions, waterMarks, gi, res, ret>>

\* Lines 63-67, the call failing.
ListOffsetsFail ==
    /\ pc = "offsets"
    /\ calls' = Append(calls, Call("ListConsumerGroupOffsetsBulk", groups, FALSE, <<>>))
    /\ ret' = ReturnNil(ErrListOffsets)
    /\ pc' = "done"
    /\ UNCHANGED <<groups, offsets, offsetsByGroup, topics, ti, topicPartitions,
                   waterMarks, gi, res>>

\* Lines 84-91, one iteration with the call succeeding.
ListPartitionsOk ==
    /\ pc = "partitions"
    /\ ti <= Len(topics)
    /\ \E partitions \in PartitionLists :
         /\ topicPartitions' = Put(topicPartitions, topics[ti], partitions)
         /\ calls' = Append(calls, Call("Partitions", topics[ti], TRUE, partitions))
    /\ ti' = ti + 1
    /\ UNCHANGED <<groups, pc, offsets, offsetsByGroup, topics, waterMarks, gi, res, ret>>

\* Lines 84-89 with the error logged and the loop going on.
ListPartitionsFailIgnored ==
    /\ pc = "partitions"
    /\ ti <= Len(topics)
    /\ calls' = Append(calls, Call("Partitions", topics[ti], FALSE, <<>>))
    /\ ti' = ti + 1
    /\ UNCHANGED <<groups, pc, offsets, offsetsByGroup, topics, topicPartitions,
                   waterMarks, gi, res, ret>>

\* Lines 84-89, one iteration with the call failing.
ListPartitionsFail ==
    /\ pc = "partitions"
    /\ ti <= Len(topics)
    /\ calls' = Append(calls, Call("Partitions", topics[ti], FALSE, <<>>))
    /\ ret' = ReturnNil(ErrPartitions)
    /\ pc' = "done"
    /\ UNCHANGED <<groups, offsets, offsetsByGroup, topics, ti, topicPartitions,
                   waterMarks, gi, res>>

\* Lines 93-99, the call succeeding.
HighWaterMarksOk ==
    /\ pc = "partitions"
    /\ ti > Len(topics)
    /\ \E marks \in HighWaterMarkResults(topicPartitions) :
         /\ waterMarks' = marks
         /\ calls' = Append(calls, Call("HighWaterMarks", topicPartitions, TRUE, marks))
    /\ pc' = "lags"
    /\ UNCHANGED <<groups, offsets, offsetsByGroup, topics, ti, topicPartitions,
                   gi, res, ret>>

\* Lines 93-96, the call failing.
HighWaterMarksFail ==
    /\ pc = "partitions"
    /\ ti > Len(topics)
    /\ calls' = Append(calls, Call("HighWaterMarks", topicPartitions, FALSE, <<>>))
    /\ ret' = ReturnNil(ErrHighWaterMarks)
    /\ pc' = "done"
    /\ UNCHANGED <<groups, offsets, offsetsByGroup, topics, ti, topicPartitions,
                   waterMarks, gi, res>>

\* The outcomes of lines 101-137 for groups[gi], over every iteration order.
GroupJoins ==
    LET topicOffsets == GroupTopicOffsets(offsetsByGroup, groups[gi])
    IN  {JoinTopics(MakeTopicLags, topicOrder, pOrder, topicOffsets, waterMarks) :
            topicOrder \in Perms(DOMAIN topicOffsets),
            pOrder \in InnerOrders(waterMarks, PartitionIDs)}

\* Lines 100-143, one iteration that reaches line 139.
ComputeGroupLag ==
    /\ pc = "lags"
    /\ gi <= Len(groups)
    /\ \E j \in GroupJoins :
         /\ j.ok
         /\ res' = PutGroupLag(res, groups[gi], j.topicLags)
    /\ gi' = gi + 1
    /\ UNCHANGED <<groups, pc, calls, offsets, offsetsByGroup, topics, ti,
                   topicPartitions, waterMarks, ret>>

\* Lines 100-110, one iteration that returns the error of line 109.
MissingWatermark ==
    /\ pc = "lags"
    /\ gi <= Len(groups)
    /\ \E j \in GroupJoins : ~j.ok
    /\ ret' = ReturnNil(ErrNoWatermark)
    /\ pc' = "done"
    /\ UNCHANGED <<groups, calls, offsets, offsetsByGroup, topics, ti,
                   topicPartitions, waterMarks, gi, res>>

\* Line 145.
Return ==
    /\ pc = "lags"
    /\ gi > Len(groups)
    /\ ret' = ReturnRes
    /\ pc' = "done"
    /\ UNCHANGED <<groups, calls, offsets, offsetsByGroup, topics, ti,
                   topicPartitions, waterMarks, gi, res>>

Next ==
    \/ ListOffsetsOk
    \/ ListOffsetsFail
    \/ ListPartitionsOk
    \/ ListPartitionsFail
    \/ HighWaterMarksOk
    \/ HighWaterMarksFail
    \/ ComputeGroupLag
    \/ MissingWatermark
    \/ Return

Spec == Init /\ [][Next]_vars

(* ------------------------ one group, one topic ------------------------ *)
\* The states of getConsumerGroupLags at line 98 when one group was asked
\* for and it has offsets for one topic: the three calls succeeded and the
\* lags are about to be computed.
InitTopic ==
    \E g \in GroupIDs, topic \in TopicNames, blocks \in TopicBlocks,
       partitions \in PartitionLists :
        \E marks \in [Range(partitions) -> WatermarkValues] :
            LET bulk == [x \in {g} |-> [Blocks |-> [y \in {topic} |-> blocks]]]
                req == [y \in {topic} |-> partitions]
                wm == [y \in {topic} |-> marks]
            IN  /\ groups = <<g>>
                /\ pc = "lags"
                /\ calls = <<Call("ListConsumerGroupOffsetsBulk", <<g>>, TRUE, bulk),
                             Call("Partitions", topic, TRUE, partitions),
                             Call("HighWaterMarks", req, TRUE, wm)>>
                /\ offsets = bulk
                /\ offsetsByGroup = [x \in {g} |-> convertOffsets(bulk[x])]
                /\ topics = <<topic>>
                /\ ti = 2
                /\ topicPartitions = req
                /\ waterMarks = wm
                /\ gi = 1
                /\ res = <<>>
                /\ ret = NotReturned

NextTopic ==
    \/ ComputeGroupLag
    \/ Return

SpecTopic == InitTopic /\ [][NextTopic]_vars
(* --------------------------- the report ------------------------------- *)
\* getConsumerGroupLags returned a report (line 145).
Returned == pc = "done" /\ ret = ReturnRes

TopicLagsOf(g) == res[g].TopicLags.elems

LagsOf(t) == [k \in DOMAIN t.PartitionLags |-> t.PartitionLags[k].Lag]

ReportedPartitions(t) == {t.PartitionLags[k].PartitionID : k \in DOMAIN t.PartitionLags}

\* The partitions of topic for which group g has an entry in its offsets.
OffsetPartitions(g, topic) ==
    IF topic \in DOMAIN GroupTopicOffsets(offsetsByGroup, g)
    THEN DOMAIN offsetsByGroup[g][topic] ELSE {}

CallsOf(op) == {i \in DOMAIN calls : calls[i].op = op}

(* ------------------------------- C1 ----------------------------------- *)
\* C1: in a returned report every PartitionLag has Lag >= 0; Lag is the
\* water mark minus the committed offset when that is >= 0, and 0 when the
\* water mark is below the committed offset.
C1_LagClamped ==
    Returned =>
        \A g \in DOMAIN res : \A i \in DOMAIN TopicLagsOf(g) :
            LET t == TopicLagsOf(g)[i]
            IN  \A k \in DOMAIN t.PartitionLags :
                    LET pl == t.PartitionLags[k]
                        watermark == waterMarks[t.Topic][pl.PartitionID]
                        groupOffset == offsetsByGroup[g][t.Topic][pl.PartitionID]
                    IN  /\ pl.Lag >= 0
                        /\ watermark - groupOffset >= 0 => pl.Lag = watermark - groupOffset
                        /\ watermark < groupOffset => pl.Lag = 0

\* A report holding a partition whose water mark is below the committed
\* offset, and one whose water mark is above it.
C1_Witness ==
    /\ Returned
    /\ \E g \in DOMAIN res : \E i \in DOMAIN TopicLagsOf(g) :
          LET t == TopicLagsOf(g)[i]
          IN  /\ \E k \in DOMAIN t.PartitionLags :
                    /\ waterMarks[t.Topic][t.PartitionLags[k].PartitionID]
                          < offsetsByGroup[g][t.Topic][t.PartitionLags[k].PartitionID]
                    /\ t.PartitionLags[k].Lag = 0
              /\ \E k \in DOMAIN t.PartitionLags : t.PartitionLags[k].Lag > 0

(* ------------------------------- C2 ----------------------------------- *)
\* C2: in a returned report every TopicLag's SummedLag is the sum of the Lag
\* fields of its PartitionLags, and it is 0 when every partition of the
\* topic has a committed offset equal to its water mark.
C2_SummedLag ==
    Returned =>
        \A g \in DOMAIN res : \A i \in DOMAIN TopicLagsOf(g) :
            LET t == TopicLagsOf(g)[i]
                marks == waterMarks[t.Topic]
            IN  /\ t.SummedLag = SumSeq(LagsOf(t))
                /\ (\A p \in DOMAIN marks :
                        /\ p \in OffsetPartitions(g, t.Topic)
                        /\ offsetsByGroup[g][t.Topic][p] = marks[p])
                   => t.SummedLag = 0

\* A report with a TopicLag of two partitions, both lagging.
C2_Witness ==
    /\ Returned
    /\ \E g \in DOMAIN res : \E i \in DOMAIN TopicLagsOf(g) :
          LET t == TopicLagsOf(g)[i]
          IN  /\ Len(t.PartitionLags) = 2
              /\ \A k \in DOMAIN t.PartitionLags : t.PartitionLags[k].Lag > 0
              /\ t.SummedLag >= 2

(* ------------------------------- C3 ----------------------------------- *)
\* C3: in a returned report every TopicLag has PartitionsWithOffset <=
\* PartitionCount, PartitionCount being the number of partitions of the
\* topic's water marks and PartitionsWithOffset the length of PartitionLags.
C3_PartitionsWithOffset ==
    Returned =>
        \A g \in DOMAIN res : \A i \in DOMAIN TopicLagsOf(g) :
            LET t == TopicLagsOf(g)[i]
            IN  /\ t.PartitionCount = Cardinality(DOMAIN waterMarks[t.Topic])
                /\ t.PartitionsWithOffset = Len(t.PartitionLags)
                /\ t.PartitionsWithOffset <= t.PartitionCount

\* A report with a TopicLag whose group has an offset for a partition that
\* has no water mark, and an offset for one that has.
C3_Witness ==
    /\ Returned
    /\ \E g \in DOMAIN res : \E i \in DOMAIN TopicLagsOf(g) :
          LET t == TopicLagsOf(g)[i]
          IN  /\ t.PartitionsWithOffset = 1
              /\ t.PartitionCount = 1
              /\ Cardinality(OffsetPartitions(g, t.Topic)) = 2

(* ------------------------------- C4 ----------------------------------- *)
\* C4: in a returned report the partitions of a TopicLag's PartitionLags are
\* exactly the partitions with both a water mark and an entry in the group's
\* offsets for the topic, each once.
C4_ReportedPartitions ==
    Returned =>
        \A g \in DOMAIN res : \A i \in DOMAIN TopicLagsOf(g) :
            LET t == TopicLagsOf(g)[i]
                both == (DOMAIN waterMarks[t.Topic]) \cap OffsetPartitions(g, t.Topic)
            IN  /\ ReportedPartitions(t) = both
                /\ Len(t.PartitionLags) = Cardinality(both)

\* A report where a partition with a water mark and no offset is left out
\* next to a reported one, and a partition with an offset and no water mark
\* is left out.
C4_Witness ==
    /\ Returned
    /\ \E g \in DOMAIN res : \E i \in DOMAIN TopicLagsOf(g) :
          LET t == TopicLagsOf(g)[i]
          IN  /\ ReportedPartitions(t) # {}
              /\ (DOMAIN waterMarks[t.Topic]) \ OffsetPartitions(g, t.Topic) # {}
    /\ \E g \in DOMAIN res : \E i \in DOMAIN TopicLagsOf(g) :
          LET t == TopicLagsOf(g)[i]
          IN  OffsetPartitions(g, t.Topic) \ (DOMAIN waterMarks[t.Topic]) # {}

(* ------------------------------- C5 ----------------------------------- *)
\* C5: a returned report has an entry for every requested group and for no
\* other, each entry's GroupID is its key, and a requested group without
\* offsets has TopicLags empty and not nil.
C5_EveryRequestedGroup ==
    Returned =>
        /\ DOMAIN res = Range(groups)
        /\ \A g \in DOMAIN res :
              /\ res[g].GroupID = g
              /\ DOMAIN GroupTopicOffsets(offsetsByGroup, g) = {}
                    => /\ res[g].TopicLags.elems = <<>>
                       /\ ~res[g].TopicLags.isNil

\* A report for two groups: one missing from the bulk result, one with a
\* topic lag.
C5_Witness ==
    /\ Returned
    /\ \E g, h \in DOMAIN res :
          /\ g \notin DOMAIN offsetsByGroup
          /\ res[g].TopicLags.elems = <<>>
          /\ res[h].TopicLags.elems # <<>>

(* ------------------------------- C6 ----------------------------------- *)
\* C6: in a returned report a group's TopicLags hold a TopicLag for a topic
\* only if the group has a committed offset counted for it: a topic for
\* which the group has no committed offset is absent (GetTopicLag is nil),
\* never present with empty PartitionLags.
C6_NoEmptyTopicLag ==
    Returned =>
        \A g \in DOMAIN res :
            /\ \A i \in DOMAIN TopicLagsOf(g) :
                  /\ TopicLagsOf(g)[i].PartitionsWithOffset > 0
                  /\ TopicLagsOf(g)[i].PartitionLags # <<>>
            /\ \A topic \in TopicNames :
                  OffsetPartitions(g, topic) = {} => GetTopicLag(res[g], topic) = <<>>

(* ------------------------------- C7 ----------------------------------- *)
\* A requested group has offsets for a topic that has no water marks.
MissingTopic ==
    \E i \in DOMAIN groups :
        \E topic \in DOMAIN GroupTopicOffsets(offsetsByGroup, groups[i]) :
            topic \notin DOMAIN waterMarks

WaterMarksFetched == \E i \in CallsOf("HighWaterMarks") : calls[i].ok

\* C7: once the water marks are fetched, if a requested group has offsets
\* for a topic without water marks, the function ends with the error of
\* line 109 and the nil map, whatever it computed before.
C7_MissingWatermarkFatal ==
    (pc = "done" /\ WaterMarksFetched /\ MissingTopic) => ret = ReturnNil(ErrNoWatermark)

\* The error is returned after another group's lags were computed.
C7_Witness ==
    /\ pc = "done"
    /\ WaterMarksFetched
    /\ MissingTopic
    /\ ret = ReturnNil(ErrNoWatermark)
    /\ \E g \in DOMAIN res : res[g].TopicLags.elems # <<>>

(* ------------------------------- C8 ----------------------------------- *)
\* The place of a call in the order of lines 63, 85, 93.
Rank(op) ==
    CASE op = "ListConsumerGroupOffsetsBulk" -> 1
      [] op = "Partitions" -> 2
      [] op = "HighWaterMarks" -> 3

\* C8: the calls are issued in the order bulk offset fetch, partition
\* listings, one water mark fetch; a failed call is the last call and makes
\* the function return an error and the nil map; a report is returned only
\* after all three kinds of call succeeded.
C8_CallOrder ==
    /\ \A i, j \in DOMAIN calls :
          i < j => /\ Rank(calls[i].op) <= Rank(calls[j].op)
                   /\ calls[i].ok
    /\ Cardinality(CallsOf("ListConsumerGroupOffsetsBulk")) <= 1
    /\ Cardinality(CallsOf("HighWaterMarks")) <= 1
    /\ calls # <<>> => calls[1].op = "ListConsumerGroupOffsetsBulk"
    /\ CallsOf("HighWaterMarks") # {} => Cardinality(CallsOf("Partitions")) = Len(topics)
    /\ (calls # <<>> /\ ~calls[Len(calls)].ok)
          => /\ pc = "done"
             /\ ret.map = "nil"
             /\ ret.err # NoError
    /\ pc = "done" => calls # <<>>
    /\ Returned => /\ \A i \in DOMAIN calls : calls[i].ok
                   /\ calls[Len(calls)].op = "HighWaterMarks"

\* A partition listing fails after another one succeeded.
C8_Witness ==
    /\ pc = "done"
    /\ Len(calls) = 3
    /\ calls[2].op = "Partitions" /\ calls[2].ok
    /\ calls[3].op = "Partitions" /\ ~calls[3].ok
    /\ ret = ReturnNil(ErrPartitions)

(* ------------------------------- C9 ----------------------------------- *)
\* The distinct topics of the offsets of all groups.
ConsumedTopics == UNION {DOMAIN offsetsByGroup[g] : g \in DOMAIN offsetsByGroup}

\* C9: when the water marks are requested, the partitions of every consumed
\* topic were listed exactly once, and the request holds one entry per
\* consumed topic: the list returned for it.
C9_ListedOnce ==
    \A h \in CallsOf("HighWaterMarks") :
        /\ DOMAIN calls[h].arg = ConsumedTopics
        /\ \A topic \in ConsumedTopics :
              /\ Cardinality({i \in CallsOf("Partitions") : calls[i].arg = topic}) = 1
              /\ \E i \in CallsOf("Partitions") :
                    /\ calls[i].arg = topic
                    /\ calls[i].result = calls[h].arg[topic]

(* ------------------------------- C10 ---------------------------------- *)
\* The partitions of topic for which group g has an offset other than -1.
ActiveOffsetPartitions(g, topic) ==
    {p \in OffsetPartitions(g, topic) : offsetsByGroup[g][topic][p] # -1}

\* C10: a raw offset of -1 is kept by convertOffsets and the partition is
\* then treated as one without a committed offset: it is not counted in
\* PartitionsWithOffset and not in PartitionLags.
C10_NoOffsetFiltered ==
    Returned =>
        /\ \A g \in DOMAIN offsets : \A topic \in DOMAIN offsets[g].Blocks :
              \A p \in DOMAIN offsets[g].Blocks[topic] :
                  offsetsByGroup[g][topic][p] = offsets[g].Blocks[topic][p].Offset
        /\ \A g \in DOMAIN res : \A i \in DOMAIN TopicLagsOf(g) :
              LET t == TopicLagsOf(g)[i]
                  active == (DOMAIN waterMarks[t.Topic])
                                \cap ActiveOffsetPartitions(g, t.Topic)
              IN  /\ ReportedPartitions(t) = active
                  /\ t.PartitionsWithOffset = Cardinality(active)
====
